---- MODULE Spec2Model ----
(***************************************************************************)
(* Model of TrajectoryPlayback, the playback scheduler of the example      *)
(* notebook examples/rosetta_interactive_sim.ipynb (cell 8).               *)
(*                                                                         *)
(* Caller threads invoke play, pause, step, cancel_playback, run_playback  *)
(* and reset.  Every method is cut into steps at the places where it reads *)
(* or writes a field of the object, so that calls of different threads and *)
(* the executor's worker thread interleave as they can in CPython.         *)
(* The property is_running is evaluated in one step, and sleep() is a pure *)
(* delay that is folded into the step before it.                           *)
(***************************************************************************)
EXTENDS Integers, FiniteSets, Sequences, TLC

\* ---------------------------------------------------------------- bounds
MaxTasks   == 2   \* tasks submitted to the executor over a run
NumFrames  == 2   \* N = len(self.frames), N > 0
MaxSteps   == 3   \* longest run of consecutive step() calls that is tracked

\* ---------------------------------------------------- program constants
max_workers == 1  \* futures.ThreadPoolExecutor(max_workers=1)

\* the caller threads (two: enough for every race between callers found below)
Callers == {1, 2}
Tasks   == 1..MaxTasks
None    == 0

Ops == {"play", "pause", "step", "cancel_nowait", "cancel_wait", "run_playback", "reset"}

VARIABLES
    run_task,     \* self._run_task: None or the Future last assigned
    cancelled,    \* self._cancelled
    lockOwner,    \* self._cancel_lock: None or the caller holding it
    frame_index,  \* self.frame_index
    status,       \* state of every Future: "none" (not submitted), "pending", "running", "done", "failed" (done, with an exception)
    wpc,          \* position of every task inside _run
    wtmp,         \* value of self.frame_index loaded by a task in _step_one_frame
    pc,           \* position of every caller thread
    op,           \* the method a caller thread is executing
    handle,       \* caller local: Future returned by submit / Future whose result() is awaited
    ctmp,         \* caller local: value of self.frame_index loaded in _step_one_frame
    snap,         \* history: <<_cancelled, _run_task, frame_index>> at the start of an undisturbed call on an idle scheduler
    solo,         \* history: no other caller thread has made a call since this call started
    controlsOnly, \* history: only play, pause and step have been called so far
    busy,         \* history: a worker was active when this call of play() started
    mark,         \* history: frame_index when the step() in progress began its emission
    emits,        \* history: emissions by anyone since the step() in progress began its emission (capped at 2)
    stepsBase,    \* history: frame_index at the start of a run of consecutive step() calls, or -1
    stepsDone,    \* history: number of step() calls completed in that run
    nframes,      \* len(self.frames): fixed at construction
    observe,      \* the emissions are being recorded (fixed at construction)
    lastEmit,     \* record: index of the last frame sent to the sink, -1 before the first, -2 once reset() was called
    emitted       \* record: the running tasks that have sent a frame

vars == <<run_task, cancelled, lockOwner, frame_index, status, wpc, wtmp, pc, op,
          handle, ctmp, snap, solo, controlsOnly, busy, mark, emits,
          stepsBase, stepsDone, nframes, observe, lastEmit, emitted>>

progVars == <<run_task, cancelled, lockOwner, frame_index, status, wpc, wtmp>>
histVars == <<snap, solo, controlsOnly, busy, mark, emits, stepsBase, stepsDone>>
cfgVars  == <<nframes, observe>>
logVars  == <<lastEmit, emitted>>

\* ------------------------------------------------------------- helpers
Submitted == {t \in Tasks : status[t] # "none"}
Unfinished == {t \in Tasks : status[t] \in {"pending", "running"}}
Running == {t \in Tasks : status[t] = "running"}
WorkerActive == Unfinished # {}

\* Future.done() / Future.cancelled(): no Future is ever cancelled here.
done(t) == status[t] \in {"done", "failed"}

\* is_running (property)
is_running == run_task # None /\ ~done(run_task)

\* TrajectoryPlayback(): the fields after construction
Constructed ==
    /\ run_task = None
    /\ cancelled = FALSE
    /\ lockOwner = None
    /\ frame_index = 0
    /\ status = [t \in Tasks |-> "none"]
    /\ wpc = [t \in Tasks |-> "-"]
    /\ wtmp = [t \in Tasks |-> 0]
    /\ pc = [c \in Callers |-> "idle"]
    /\ op = [c \in Callers |-> "none"]
    /\ handle = [c \in Callers |-> None]
    /\ ctmp = [c \in Callers |-> 0]
    /\ snap = [c \in Callers |-> <<>>]
    /\ solo = [c \in Callers |-> FALSE]
    /\ controlsOnly = TRUE
    /\ busy = [c \in Callers |-> FALSE]
    /\ mark = 0
    /\ emits = 0
    /\ stepsBase = -1
    /\ stepsDone = 0
    /\ lastEmit = -1
    /\ emitted = {}

\* a scheduler over a non-empty frame list
Init ==
    /\ Constructed
    /\ nframes = NumFrames
    /\ observe = FALSE

\* the same, with every emission recorded
InitLog ==
    /\ Constructed
    /\ nframes = NumFrames
    /\ observe = TRUE

\* --------------------------------------------------------- caller steps
CancelOps == {"cancel_nowait", "cancel_wait"}
LockedOps == {"play", "pause", "step"}
StartOps  == {"play", "run_playback"}

\* the wait argument of cancel_playback: play, pause and step pass wait=True
wait(c) == op[c] # "cancel_nowait"

Resting(c) == pc[c] \in {"idle", "returned", "raised"}
Quiet(c) == \A d \in Callers \ {c} : Resting(d)

\* callers inside play / run_playback that may still submit a task
InFlight == {c \in Callers : op[c] \in StartOps /\ ~Resting(c) /\ pc[c] # "rp_assign"}

FirstPc(o) ==
    IF o \in LockedOps THEN "lock"
    ELSE IF o \in CancelOps THEN "cp_none"
    ELSE IF o = "run_playback" THEN "rp_check"
    ELSE IF o = "run_blocking" THEN "rb_check"
    ELSE "reset"

\* where control goes when cancel_playback returns to the method that called it
AfterCancel(c) ==
    IF op[c] \in {"play", "pause"} THEN "unlock"
    ELSE IF op[c] = "step" THEN "sf_send"
    ELSE "returned"

NextIndexNoWrap(i) == i + 1

NextIndexSkip(i) == (i + 2) % NumFrames

\* (self.frame_index + 1) % len(self.frames)
NextIndex(i) == (i + 1) % nframes

\* the record of the last emission after frame i has been sent
Logged(i) == IF ~observe \/ lastEmit = -2 THEN lastEmit ELSE i

\* a step() is between its own emission and its return
Stepping == \E c \in Callers : op[c] = "step" /\ pc[c] \in {"sf_load", "sf_store", "unlock"}

\* one more emission seen by the step() in progress
Bump(e) == IF Stepping /\ e < 2 THEN e + 1 ELSE e

\* a thread is inside the loop of _run that run_playback(block=True) runs on the
\* caller's own thread
Blocking == \E d \in Callers : pc[d] \in {"b_test", "b_send", "b_load", "b_store"}

\* A caller thread calls method o of the scheduler.
Call(c, o) ==
    /\ Resting(c)
    /\ o \in StartOps => Cardinality(Submitted) + Cardinality(InFlight) < MaxTasks
    /\ pc' = [pc EXCEPT ![c] = FirstPc(o)]
    /\ op' = [op EXCEPT ![c] = o]
    /\ UNCHANGED <<handle, ctmp>>
    /\ busy' = [busy EXCEPT ![c] = \/ o = "play" /\ WorkerActive
                                   \/ o \in CancelOps /\ Blocking]
    /\ solo' = [d \in Callers |-> d = c /\ Quiet(c)]
    /\ controlsOnly' = (controlsOnly /\ o \in LockedOps)
    /\ UNCHANGED <<mark, emits>>
    /\ snap' = [d \in Callers |->
                  IF d = c /\ o \in CancelOps /\ Quiet(c) /\ ~WorkerActive
                  THEN <<cancelled, run_task, frame_index>> ELSE <<>>]
    /\ IF o = "step" /\ Quiet(c) /\ ~WorkerActive
       THEN IF stepsBase = -1 \/ stepsDone >= MaxSteps
            THEN stepsBase' = frame_index /\ stepsDone' = 0
            ELSE UNCHANGED <<stepsBase, stepsDone>>
       ELSE stepsBase' = -1 /\ stepsDone' = 0
    /\ UNCHANGED progVars
    /\ UNCHANGED cfgVars
    /\ UNCHANGED logVars

\* with self._cancel_lock:  (entry)
Lock(c) ==
    /\ pc[c] = "lock"
    /\ lockOwner = None
    /\ lockOwner' = c
    /\ pc' = [pc EXCEPT ![c] = "cp_none"]
    /\ UNCHANGED <<run_task, cancelled, frame_index, status, wpc, wtmp, op, handle, ctmp>>
    /\ UNCHANGED histVars
    /\ UNCHANGED cfgVars
    /\ UNCHANGED logVars

\* with self._cancel_lock:  (exit), and the return of pause / step
Unlock(c) ==
    /\ pc[c] = "unlock"
    /\ lockOwner' = None
    /\ pc' = [pc EXCEPT ![c] = IF op[c] = "play" THEN "rp_check" ELSE "returned"]
    /\ IF op[c] = "step" /\ stepsBase # -1
       THEN stepsDone' = stepsDone + 1 /\ UNCHANGED stepsBase
       ELSE UNCHANGED <<stepsBase, stepsDone>>
    /\ mark' = 0
    /\ emits' = 0
    /\ UNCHANGED <<run_task, cancelled, frame_index, status, wpc, wtmp, op, handle, ctmp>>
    /\ UNCHANGED <<snap, solo, controlsOnly, busy>>
    /\ UNCHANGED cfgVars
    /\ UNCHANGED logVars

\* if self._run_task is None: return
CancelCheckTask(c) ==
    /\ pc[c] = "cp_none"
    /\ pc' = [pc EXCEPT ![c] = IF run_task = None THEN AfterCancel(c) ELSE "cp_flag"]
    /\ UNCHANGED <<op, handle, ctmp>>
    /\ UNCHANGED progVars
    /\ UNCHANGED histVars
    /\ UNCHANGED cfgVars
    /\ UNCHANGED logVars

\* if self._cancelled: return
CancelCheckFlag(c) ==
    /\ pc[c] = "cp_flag"
    /\ pc' = [pc EXCEPT ![c] = IF cancelled THEN AfterCancel(c) ELSE "cp_set"]
    /\ UNCHANGED <<op, handle, ctmp>>
    /\ UNCHANGED progVars
    /\ UNCHANGED histVars
    /\ UNCHANGED cfgVars
    /\ UNCHANGED logVars

\* self._cancelled = True ; if wait: ...
CancelSet(c) ==
    /\ pc[c] = "cp_set"
    /\ cancelled' = TRUE
    /\ pc' = [pc EXCEPT ![c] = IF wait(c) THEN "cp_load" ELSE AfterCancel(c)]
    /\ UNCHANGED <<run_task, lockOwner, frame_index, status, wpc, wtmp, op, handle, ctmp>>
    /\ UNCHANGED histVars
    /\ UNCHANGED cfgVars
    /\ UNCHANGED logVars

\* self._run_task  (the Future whose result() is about to be called)
CancelLoad(c) ==
    /\ pc[c] = "cp_load"
    /\ handle' = [handle EXCEPT ![c] = run_task]
    /\ pc' = [pc EXCEPT ![c] = "cp_wait"]
    /\ UNCHANGED <<op, ctmp>>
    /\ UNCHANGED progVars
    /\ UNCHANGED histVars
    /\ UNCHANGED cfgVars
    /\ UNCHANGED logVars

\* .result(): blocks until that Future is done, and returns if _run returned
CancelWait(c) ==
    /\ pc[c] = "cp_wait"
    /\ status[handle[c]] = "done"
    /\ handle' = [handle EXCEPT ![c] = None]
    /\ pc' = [pc EXCEPT ![c] = "cp_clear"]
    /\ UNCHANGED <<op, ctmp>>
    /\ UNCHANGED progVars
    /\ UNCHANGED histVars
    /\ UNCHANGED cfgVars
    /\ UNCHANGED logVars

\* self._cancelled = False
CancelClear(c) ==
    /\ pc[c] = "cp_clear"
    /\ cancelled' = FALSE
    /\ pc' = [pc EXCEPT ![c] = AfterCancel(c)]
    /\ UNCHANGED <<run_task, lockOwner, frame_index, status, wpc, wtmp, op, handle, ctmp>>
    /\ UNCHANGED histVars
    /\ UNCHANGED cfgVars
    /\ UNCHANGED logVars

\* step: send_frame(self.frame_index, self.frames[self.frame_index])
StepSend(c) ==
    /\ pc[c] = "sf_send"
    /\ frame_index < nframes
    /\ mark' = frame_index
    /\ emits' = 1
    /\ pc' = [pc EXCEPT ![c] = "sf_load"]
    /\ UNCHANGED <<op, handle, ctmp, snap, solo, controlsOnly, busy, stepsBase, stepsDone>>
    /\ UNCHANGED progVars
    /\ UNCHANGED cfgVars
    /\ lastEmit' = Logged(frame_index)
    /\ UNCHANGED emitted

\* step: the read of self.frame_index in the assignment
StepLoad(c) ==
    /\ pc[c] = "sf_load"
    /\ ctmp' = [ctmp EXCEPT ![c] = frame_index]
    /\ pc' = [pc EXCEPT ![c] = "sf_store"]
    /\ UNCHANGED <<op, handle>>
    /\ UNCHANGED progVars
    /\ UNCHANGED histVars
    /\ UNCHANGED cfgVars
    /\ UNCHANGED logVars

\* step: self.frame_index = (... + 1) % len(self.frames)
StepStore(c) ==
    /\ pc[c] = "sf_store"
    /\ frame_index' = NextIndex(ctmp[c])
    /\ ctmp' = [ctmp EXCEPT ![c] = 0]
    /\ pc' = [pc EXCEPT ![c] = "unlock"]
    /\ UNCHANGED <<run_task, cancelled, lockOwner, status, wpc, wtmp, op, handle>>
    /\ UNCHANGED histVars
    /\ UNCHANGED cfgVars
    /\ UNCHANGED logVars

\* if self.is_running: raise RuntimeError(...)
RunCheck(c) ==
    /\ pc[c] = "rp_check"
    /\ pc' = [pc EXCEPT ![c] = IF is_running THEN "raised" ELSE "rp_submit"]
    /\ UNCHANGED <<op, handle, ctmp>>
    /\ UNCHANGED progVars
    /\ UNCHANGED histVars
    /\ UNCHANGED cfgVars
    /\ UNCHANGED logVars

\* self.threads.submit(self._run)
RunSubmit(c) ==
    /\ pc[c] = "rp_submit"
    /\ LET t == Cardinality(Submitted) + 1 IN
         /\ t \in Tasks
         /\ status' = [status EXCEPT ![t] = "pending"]
         /\ handle' = [handle EXCEPT ![c] = t]
    /\ pc' = [pc EXCEPT ![c] = "rp_assign"]
    /\ UNCHANGED <<run_task, cancelled, lockOwner, frame_index, wpc, wtmp, op, ctmp>>
    /\ UNCHANGED histVars
    /\ UNCHANGED cfgVars
    /\ UNCHANGED logVars

\* self._run_task = <the Future returned by submit>
RunAssign(c) ==
    /\ pc[c] = "rp_assign"
    /\ run_task' = handle[c]
    /\ handle' = [handle EXCEPT ![c] = None]
    /\ pc' = [pc EXCEPT ![c] = "returned"]
    /\ UNCHANGED <<cancelled, lockOwner, frame_index, status, wpc, wtmp, op, ctmp>>
    /\ UNCHANGED histVars
    /\ UNCHANGED cfgVars
    /\ UNCHANGED logVars

\* reset: self.frame_index = 0
Reset(c) ==
    /\ pc[c] = "reset"
    /\ frame_index' = 0
    /\ pc' = [pc EXCEPT ![c] = "returned"]
    /\ UNCHANGED <<run_task, cancelled, lockOwner, status, wpc, wtmp, op, handle, ctmp>>
    /\ UNCHANGED histVars
    /\ UNCHANGED cfgVars
    /\ lastEmit' = IF observe THEN -2 ELSE lastEmit
    /\ UNCHANGED emitted

\* --------------------------------------------- the executor's worker thread
CanStartTwoThreads == Cardinality(Running) < max_workers + 1

\* ThreadPoolExecutor(max_workers=1): a free worker thread exists
CanStart == Cardinality(Running) < max_workers

\* the executor takes the oldest queued task and calls _run
ExecStart(t) ==
    /\ status[t] = "pending"
    /\ \A u \in Tasks : status[u] = "pending" => t <= u
    /\ CanStart
    /\ status' = [status EXCEPT ![t] = "running"]
    /\ wpc' = [wpc EXCEPT ![t] = "test"]
    /\ UNCHANGED <<run_task, cancelled, lockOwner, frame_index, wtmp, pc, op, handle, ctmp>>
    /\ UNCHANGED histVars
    /\ UNCHANGED cfgVars
    /\ UNCHANGED logVars

\* while not self._cancelled:
RunTest(t) ==
    /\ wpc[t] = "test"
    /\ wpc' = [wpc EXCEPT ![t] = IF cancelled THEN "clear" ELSE "send"]
    /\ UNCHANGED <<run_task, cancelled, lockOwner, frame_index, status, wtmp, pc, op, handle, ctmp>>
    /\ UNCHANGED histVars
    /\ UNCHANGED cfgVars
    /\ UNCHANGED logVars

\* _run: send_frame(self.frame_index, self.frames[self.frame_index])
RunSend(t) ==
    /\ wpc[t] = "send"
    /\ frame_index < nframes
    /\ emits' = Bump(emits)
    /\ wpc' = [wpc EXCEPT ![t] = "load"]
    /\ UNCHANGED <<run_task, cancelled, lockOwner, frame_index, status, wtmp, pc, op, handle, ctmp>>
    /\ UNCHANGED <<snap, solo, controlsOnly, busy, mark, stepsBase, stepsDone>>
    /\ UNCHANGED cfgVars
    /\ lastEmit' = Logged(frame_index)
    /\ emitted' = IF observe THEN emitted \cup {t} ELSE emitted

\* _run: the read of self.frame_index in the assignment
RunLoad(t) ==
    /\ wpc[t] = "load"
    /\ wtmp' = [wtmp EXCEPT ![t] = frame_index]
    /\ wpc' = [wpc EXCEPT ![t] = "store"]
    /\ UNCHANGED <<run_task, cancelled, lockOwner, frame_index, status, pc, op, handle, ctmp>>
    /\ UNCHANGED histVars
    /\ UNCHANGED cfgVars
    /\ UNCHANGED logVars

\* _run: self.frame_index = (... + 1) % len(self.frames) ; sleep(1 / playback_fps)
RunStore(t) ==
    /\ wpc[t] = "store"
    /\ frame_index' = NextIndex(wtmp[t])
    /\ wtmp' = [wtmp EXCEPT ![t] = 0]
    /\ wpc' = [wpc EXCEPT ![t] = "test"]
    /\ UNCHANGED <<run_task, cancelled, lockOwner, status, pc, op, handle, ctmp>>
    /\ UNCHANGED histVars
    /\ UNCHANGED cfgVars
    /\ UNCHANGED logVars

\* _run: self._cancelled = False  (after the loop)
RunClear(t) ==
    /\ wpc[t] = "clear"
    /\ cancelled' = FALSE
    /\ wpc' = [wpc EXCEPT ![t] = "ret"]
    /\ UNCHANGED <<run_task, lockOwner, frame_index, status, wtmp, pc, op, handle, ctmp>>
    /\ UNCHANGED histVars
    /\ UNCHANGED cfgVars
    /\ UNCHANGED logVars

\* _run returns: the executor marks the Future done and the worker thread is free
ExecFinish(t) ==
    /\ wpc[t] = "ret"
    /\ status' = [status EXCEPT ![t] = "done"]
    /\ wpc' = [wpc EXCEPT ![t] = "-"]
    /\ UNCHANGED <<run_task, cancelled, lockOwner, frame_index, wtmp, pc, op, handle, ctmp>>
    /\ UNCHANGED histVars
    /\ UNCHANGED cfgVars
    /\ emitted' = emitted \ {t}
    /\ UNCHANGED lastEmit

CallerStep(c) ==
    \/ Lock(c) \/ Unlock(c)
    \/ CancelCheckTask(c) \/ CancelCheckFlag(c) \/ CancelSet(c)
    \/ CancelLoad(c) \/ CancelWait(c) \/ CancelClear(c)
    \/ StepSend(c) \/ StepLoad(c) \/ StepStore(c)
    \/ RunCheck(c) \/ RunSubmit(c) \/ RunAssign(c)
    \/ Reset(c)

WorkerStep(t) ==
    \/ ExecStart(t) \/ RunTest(t) \/ RunSend(t) \/ RunLoad(t)
    \/ RunStore(t) \/ RunClear(t) \/ ExecFinish(t)

Next ==
    \/ \E c \in Callers, o \in Ops : Call(c, o)
    \/ \E c \in Callers : CallerStep(c)
    \/ \E t \in Tasks : WorkerStep(t)

Spec == Init /\ [][Next]_vars

\* ------------------------------------------------------ exceptions
\* a scheduler whose frame list may be empty
InitFail ==
    /\ Constructed
    /\ nframes \in {0, NumFrames}
    /\ observe = FALSE

\* _run: self.frames[self.frame_index] raises IndexError (empty list), or send_frame raises
RunSendFail(t) ==
    /\ wpc[t] = "send"
    /\ wpc' = [wpc EXCEPT ![t] = "exc"]
    /\ UNCHANGED <<run_task, cancelled, lockOwner, frame_index, status, wtmp, pc, op, handle, ctmp>>
    /\ UNCHANGED histVars
    /\ UNCHANGED cfgVars
    /\ UNCHANGED logVars

\* the exception leaves _run (line 349 is skipped): the executor stores it in the Future
ExecFail(t) ==
    /\ wpc[t] = "exc"
    /\ status' = [status EXCEPT ![t] = "failed"]
    /\ wpc' = [wpc EXCEPT ![t] = "-"]
    /\ emitted' = emitted \ {t}
    /\ UNCHANGED <<run_task, cancelled, lockOwner, frame_index, wtmp, pc, op, handle, ctmp>>
    /\ UNCHANGED histVars
    /\ UNCHANGED cfgVars
    /\ UNCHANGED lastEmit

\* step: _step_one_frame raises; the with block releases the lock and step() raises
StepSendFail(c) ==
    /\ pc[c] = "sf_send"
    /\ pc' = [pc EXCEPT ![c] = "raised"]
    /\ lockOwner' = None
    /\ stepsBase' = -1
    /\ stepsDone' = 0
    /\ UNCHANGED <<run_task, cancelled, frame_index, status, wpc, wtmp, op, handle, ctmp>>
    /\ UNCHANGED <<snap, solo, controlsOnly, busy, mark, emits>>
    /\ UNCHANGED cfgVars
    /\ UNCHANGED logVars

\* .result() re-raises the exception stored in the Future: line 369 is skipped, a
\* with block around the call releases the lock, and the method raises
CancelWaitRaise(c) ==
    /\ pc[c] = "cp_wait"
    /\ status[handle[c]] = "failed"
    /\ handle' = [handle EXCEPT ![c] = None]
    /\ pc' = [pc EXCEPT ![c] = "raised"]
    /\ lockOwner' = IF lockOwner = c THEN None ELSE lockOwner
    /\ stepsBase' = -1
    /\ stepsDone' = 0
    /\ UNCHANGED <<run_task, cancelled, frame_index, status, wpc, wtmp, op, ctmp>>
    /\ UNCHANGED <<snap, solo, controlsOnly, busy, mark, emits>>
    /\ UNCHANGED cfgVars
    /\ UNCHANGED logVars

NextFail ==
    \/ Next
    \/ \E t \in Tasks : RunSendFail(t) \/ ExecFail(t)
    \/ \E c \in Callers : StepSendFail(c) \/ CancelWaitRaise(c)

\* the scheduler with an unreliable sink and a possibly empty frame list
SpecFail == InitFail /\ [][NextFail]_vars

\* the scheduler with its emissions recorded
SpecLog == InitLog /\ [][Next]_vars

\* ------------------------------------------- run_playback(block=True)
\* run_playback(block=True): if self.is_running: raise RuntimeError(...), else self._run()
BlockCheck(c) ==
    /\ pc[c] = "rb_check"
    /\ pc' = [pc EXCEPT ![c] = IF is_running THEN "raised" ELSE "b_test"]
    /\ UNCHANGED <<op, handle, ctmp>>
    /\ UNCHANGED progVars
    /\ UNCHANGED histVars
    /\ UNCHANGED cfgVars
    /\ UNCHANGED logVars

\* _run on the caller's thread: while not self._cancelled:
BlockTest(c) ==
    /\ pc[c] = "b_test"
    /\ pc' = [pc EXCEPT ![c] = IF cancelled THEN "b_clear" ELSE "b_send"]
    /\ UNCHANGED <<op, handle, ctmp>>
    /\ UNCHANGED progVars
    /\ UNCHANGED histVars
    /\ UNCHANGED cfgVars
    /\ UNCHANGED logVars

\* _run on the caller's thread: send_frame(self.frame_index, self.frames[self.frame_index])
BlockSend(c) ==
    /\ pc[c] = "b_send"
    /\ frame_index < nframes
    /\ emits' = Bump(emits)
    /\ pc' = [pc EXCEPT ![c] = "b_load"]
    /\ UNCHANGED <<op, handle, ctmp>>
    /\ UNCHANGED <<snap, solo, controlsOnly, busy, mark, stepsBase, stepsDone>>
    /\ UNCHANGED progVars
    /\ UNCHANGED cfgVars
    /\ lastEmit' = Logged(frame_index)
    /\ UNCHANGED emitted

\* _run on the caller's thread: the read of self.frame_index in the assignment
BlockLoad(c) ==
    /\ pc[c] = "b_load"
    /\ ctmp' = [ctmp EXCEPT ![c] = frame_index]
    /\ pc' = [pc EXCEPT ![c] = "b_store"]
    /\ UNCHANGED <<op, handle>>
    /\ UNCHANGED progVars
    /\ UNCHANGED histVars
    /\ UNCHANGED cfgVars
    /\ UNCHANGED logVars

\* _run on the caller's thread: self.frame_index = (... + 1) % len(self.frames) ; sleep
BlockStore(c) ==
    /\ pc[c] = "b_store"
    /\ frame_index' = NextIndex(ctmp[c])
    /\ ctmp' = [ctmp EXCEPT ![c] = 0]
    /\ pc' = [pc EXCEPT ![c] = "b_test"]
    /\ UNCHANGED <<run_task, cancelled, lockOwner, status, wpc, wtmp, op, handle>>
    /\ UNCHANGED histVars
    /\ UNCHANGED cfgVars
    /\ UNCHANGED logVars

\* _run on the caller's thread: self._cancelled = False after the loop, and
\* run_playback(block=True) returns; the loop any cancel was aimed at is over
BlockClear(c) ==
    /\ pc[c] = "b_clear"
    /\ cancelled' = FALSE
    /\ pc' = [pc EXCEPT ![c] = "returned"]
    /\ busy' = [d \in Callers |-> busy[d] /\ op[d] \notin CancelOps]
    /\ UNCHANGED <<run_task, lockOwner, frame_index, status, wpc, wtmp, op, handle, ctmp>>
    /\ UNCHANGED <<snap, solo, controlsOnly, mark, emits, stepsBase, stepsDone>>
    /\ UNCHANGED cfgVars
    /\ UNCHANGED logVars

BlockStep(c) ==
    \/ BlockCheck(c) \/ BlockTest(c) \/ BlockSend(c)
    \/ BlockLoad(c) \/ BlockStore(c) \/ BlockClear(c)

NextBlock ==
    \/ Next
    \/ \E c \in Callers : Call(c, "run_blocking")
    \/ \E c \in Callers : BlockStep(c)

\* the scheduler with run_playback(block=True) among its calls
SpecBlock == Init /\ [][NextBlock]_vars

\* Threads that can run do run: the worker thread and every caller thread inside a
\* call are scheduled by the operating system; nobody is obliged to make a new call.
FairSpec ==
    /\ Spec
    /\ \A c \in Callers : WF_vars(CallerStep(c))
    /\ \A t \in Tasks : WF_vars(WorkerStep(t))

\* ------------------------------------------------------------------ claims
AllResting == \A c \in Callers : Resting(c)

\* C1: cancel_playback on an idle scheduler (no unfinished task), with wait=False or
\* wait=True and no other thread calling meanwhile, leaves _cancelled, _run_task and
\* frame_index as they were when the call started.
C1_CancelIdleNoOp ==
    \A c \in Callers :
        (pc[c] = "returned" /\ op[c] \in CancelOps /\ snap[c] # <<>>)
            => snap[c] = <<cancelled, run_task, frame_index>>

\* C2: is_running is false after construction, and false when pause() or
\* cancel_playback(wait=True) has returned to a caller that is the only thread
\* making calls.
C2_IdleAfterStop ==
    /\ (\A c \in Callers : op[c] = "none") => ~is_running
    /\ \A c \in Callers :
        (pc[c] = "returned" /\ op[c] \in {"pause", "cancel_wait"} /\ solo[c]) => ~is_running

\* C3: at most one task of the executor is executing _run at any time.
C3_OneWorker == Cardinality(Running) <= 1

\* C3 witness: two tasks are submitted and unfinished, one of them inside the loop of _run.
C3_Witness ==
    /\ Cardinality(Unfinished) = 2
    /\ \E t \in Tasks : status[t] = "running" /\ wpc[t] = "send"

\* C4: when run_playback(block=False) evaluates is_running while a submitted task is
\* unfinished, it raises RuntimeError and leaves _run_task, _cancelled and frame_index
\* unchanged; it never goes on to submit.
C4_SecondStartRaises ==
    [][\A c \in Callers :
          (pc[c] = "rp_check" /\ pc'[c] # "rp_check" /\ WorkerActive)
              => (pc'[c] = "raised" /\ UNCHANGED <<run_task, cancelled, frame_index, status>>)]_vars

\* C5: when only play, pause and step are called, by any number of threads, there are
\* never two submitted tasks that are both unfinished.
C5_NoDuplicateWorker == controlsOnly => Cardinality(Unfinished) <= 1

\* C6: play() called while a worker is active, by the only thread making calls, does
\* not raise, submits its task only when every earlier task is done, and after it
\* returns only the task it submitted can be running.
C6_PlayRestarts ==
    \A c \in Callers :
        (op[c] = "play" /\ busy[c] /\ solo[c]) =>
            /\ pc[c] # "raised"
            /\ pc[c] = "rp_assign" => \A t \in Tasks \ {handle[c]} : status[t] \in {"none", "done"}
            /\ pc[c] = "returned" => Unfinished \subseteq {run_task}

\* C7: when step(), called by the only thread making calls, has emitted and advanced
\* and is about to return, no other emission happened since its own, frame_index is
\* one past (modulo N) the index it emitted, and no worker is active.
C7_StepExactlyOne ==
    \A c \in Callers :
        (op[c] = "step" /\ pc[c] = "unlock" /\ solo[c]) =>
            /\ emits = 1
            /\ frame_index = (mark + 1) % NumFrames
            /\ ~WorkerActive

\* C8: a caller blocked in cancel_playback(wait=True) (directly or through play,
\* pause or step) eventually gets past the wait, whatever the other threads do.
C8_WaitReturns ==
    \A c \in Callers : (pc[c] \in {"cp_load", "cp_wait"}) ~> (pc[c] \notin {"cp_load", "cp_wait"})

\* C9: frame_index is always in [0, N).
C9_IndexInRange == frame_index \in 0..(NumFrames - 1)

\* C9 witness: the worker and step() are both about to store an index, the worker
\* wrapping from N-1 to 0.
C9_Witness ==
    \E t \in Tasks, c \in Callers :
        wpc[t] = "store" /\ wtmp[t] = NumFrames - 1 /\ pc[c] = "sf_store"

\* C10: after k >= 1 consecutive step() calls on an idle scheduler, started at index
\* i with nothing else called in between, frame_index = (i + k) mod N.
C10_StepsAdvance ==
    (AllResting /\ stepsBase # -1 /\ stepsDone >= 1)
        => frame_index = (stepsBase + stepsDone) % NumFrames

\* C10 witness: MaxSteps consecutive steps completed from a start index other than 0,
\* so the index wrapped, with a stale cancellation flag left by an earlier call.
C10_Witness ==
    AllResting /\ stepsBase = NumFrames - 1 /\ stepsDone = MaxSteps /\ cancelled

\* C13: once cancel_playback(wait=False) has returned with the flag set while a worker
\* is running, is_running eventually becomes false and the flag eventually becomes
\* false again, under fair scheduling and without any further call being needed.
C13_NoWaitCancelStops ==
    \A c \in Callers :
        /\ (pc[c] = "returned" /\ op[c] = "cancel_nowait" /\ cancelled /\ Running # {})
               ~> ~is_running
        /\ (pc[c] = "returned" /\ op[c] = "cancel_nowait" /\ cancelled /\ Running # {})
               ~> ~cancelled

\* C14: in the state right after a worker has left its loop and finished, the
\* cancellation flag is false and the task handle is None.
C14_WorkerClearsFlagAndHandle ==
    [][\A t \in Tasks :
          (wpc[t] = "ret" /\ wpc'[t] = "-") => (cancelled' = FALSE /\ run_task' = None)]_vars

\* C16: whenever no submitted task is unfinished and no call is in progress, the
\* cancellation flag is false.
C16_NoStaleFlag == (~WorkerActive /\ AllResting) => ~cancelled

\* a frame is sent to the sink in this step, by a worker or by step()
SendStep ==
    \/ \E t \in Tasks : wpc[t] = "send" /\ wpc'[t] = "load"
    \/ \E c \in Callers : pc[c] = "sf_send" /\ pc'[c] = "sf_load"

\* C11: as long as reset() has not been called, every frame sent to the sink, by the
\* worker or by step(), has the index (p + 1) mod N, p being the index of the frame
\* sent before it.
C11_EmissionOrder ==
    [][(SendStep /\ lastEmit \in 0..(NumFrames - 1))
          => frame_index = (lastEmit + 1) % NumFrames]_vars

\* the task submitted by the play() that caller c is in, or has just returned from
PlayTask(c) == IF pc[c] = "rp_assign" THEN handle[c] ELSE run_task

\* C17: when one thread alone has made every call so far, the worker submitted by
\* its play() does not leave its loop without having sent a frame (no stop request
\* can have been made after that play() started).
C17_PlayPlays ==
    \A c \in Callers :
        (op[c] = "play" /\ pc[c] \in {"rp_assign", "returned"}
                       /\ \A d \in Callers \ {c} : op[d] = "none")
            => (wpc[PlayTask(c)] \in {"clear", "ret"} => PlayTask(c) \in emitted)

\* C12: with an empty frame list, a play() that returns normally has started nothing,
\* and afterwards pause() does not raise.
C12_EmptyPlay ==
    nframes = 0 =>
        \A c \in Callers :
            /\ (op[c] = "play" /\ pc[c] = "returned") => Submitted = {}
            /\ ~(op[c] = "pause" /\ pc[c] = "raised")

\* C15: once an error of the sink has ended the worker and the scheduler is idle, a
\* cancel_playback(wait=True) called then, with no other thread calling, returns
\* normally: it does not raise.
C15_SinkErrorIdle ==
    nframes > 0 =>
        \A c \in Callers : ~(op[c] = "cancel_wait" /\ snap[c] # <<>> /\ pc[c] = "raised")

\* C18: when cancel_playback (wait=False or wait=True) was called from another thread
\* while run_playback(block=True) was executing its loop, and has returned with that
\* loop still going, the cancellation flag is set, so that the loop ends at its next
\* test of the flag, after at most one more emission.
C18_BlockingStops ==
    \A c \in Callers :
        (pc[c] = "returned" /\ op[c] \in CancelOps /\ busy[c] /\ Blocking) => cancelled

====
